---- MODULE Spec2Model ----
(***************************************************************************)
(* Model of server.js: an express server holding one BigQuery client       *)
(* handle and one credentials record in two module-level variables, and    *)
(* seven request handlers over them.  A handler runs without interruption  *)
(* up to its next await; while it is suspended on an upstream call, any    *)
(* other handler may run.                                                  *)
(***************************************************************************)
EXTENDS Integers, Sequences, FiniteSets, Bags, TLC

\* ------------------------------------------------------------------ bounds
MaxPending == 2      \* requests that may be suspended on an upstream call at once
MaxLen == 2          \* longest list (datasets, tables) the upstream returns
MaxStrLen == 2       \* longest limit / offset query-string parameter

\* ------------------------------------------------------------- JS values
Null == [t |-> "null"]
Undefined == [t |-> "undefined"]
Str(s) == [t |-> "string", s |-> s]

\* !v for a value that is undefined, null or a string
Falsy(v) == v = Undefined \/ v = Null \/ v = Str("")
\* !v for a string held as a sequence of characters
FalsyChars(v) == v = Undefined \/ v = Null \/ v = Str(<<>>)

VARIABLES
    bigQueryClient,        \* server.js:14, Null or a client handle
    bigQueryCredentials,   \* server.js:15, Null or {projectId, clientEmail}
    req,                   \* the bag of continuations of the suspended handlers
    out,                   \* the response the last step sent, NoResponse if it sent none
    verified,              \* ids of the live handles whose connect verification succeeded
    hist                   \* completed exchanges of the scripted client

vars == <<bigQueryClient, bigQueryCredentials, req, out, verified, hist>>
store == <<bigQueryClient, bigQueryCredentials>>

\* ------------------------------------------------------- request inputs
ProjectIds == {Str("p1"), Str("p2")}
ClientEmails == {Str("e1")}
\* a private key as transported: k, then backslash, n, then k
PrivateKeys == {Str(<<"k", "\\", "n", "k">>)}
\* a JSON number where the key should be: truthy, and without a replace method
NumberValue == [t |-> "number"]

CompleteBodies ==
    [projectId : ProjectIds, clientEmail : ClientEmails, privateKey : PrivateKeys]
EmptyBody == [projectId |-> Undefined, clientEmail |-> Undefined, privateKey |-> Undefined]

\* the complete bodies, and the bodies with one member missing, empty or mistyped
ConnectBodies ==
    CompleteBodies
    \cup {[body EXCEPT !.projectId = v] :
             body \in {b \in CompleteBodies : b.projectId = Str("p1")},
             v \in {Undefined, Str("")}}
    \cup {[body EXCEPT !.clientEmail = v] :
             body \in {b \in CompleteBodies : b.projectId = Str("p1")},
             v \in {Undefined, Str("")}}
    \cup {[body EXCEPT !.privateKey = v] :
             body \in {b \in CompleteBodies : b.projectId = Str("p1")},
             v \in {Undefined, Str(<<>>), NumberValue}}
    \cup {EmptyBody}

QueryBodies == [query : {Str("SELECT 1"), Str(""), Undefined}]

DatasetIds == {"d1"}
TableIds == {"t1"}

\* ------------------------------------------------------- upstream values
ErrorMessages == {"denied", "timeout"}
Failures == [ok : {FALSE}, message : ErrorMessages]
Success(v) == [ok |-> TRUE, value |-> v]
Failure(m) == [ok |-> FALSE, message |-> m]

SeqsUpTo(S, n) == UNION {[1..k -> S] : k \in 0..n}

DatasetObjects ==
    {[id |-> "d1", metadata |-> [location |-> "US"]], [id |-> "d2"],
     [id |-> "d3", metadata |-> [location |-> "EU"]]}
TableObjects == {[id |-> "t1", metadata |-> [type |-> "TABLE"]], [id |-> "t2"]}
DatasetResults == [ok : {TRUE}, value : SeqsUpTo(DatasetObjects, MaxLen)] \cup Failures
TableResults == [ok : {TRUE}, value : SeqsUpTo(TableObjects, MaxLen)] \cup Failures
\* connect ignores the value of its verification call
VerifyResults == [ok : {TRUE}, value : {<<>>}] \cup Failures

MetadataObjects == {[schema |-> [fields |-> <<"c1">>], numRows |-> "3"], [numRows |-> "3"]}
MetadataResults == [ok : {TRUE}, value : MetadataObjects] \cup Failures

\* a row is an ordered list of (column name, value); a value carries its runtime type
Row1 == <<[name |-> "c1", value |-> [type |-> "number", repr |-> "1"]]>>
RowResults == [ok : {TRUE}, value : {<<>>, <<Row1>>}] \cup Failures

\* ------------------------------------------------------------ responses
NoResponse == [kind |-> "none"]

Response(kind, code, body, calls) ==
    [kind |-> kind, code |-> code, body |-> body, calls |-> calls]

\* the upstream calls of a request as the response record keeps them: the operations
Strip(calls) == [i \in DOMAIN calls |-> calls[i].op]

Call(op, client, arg) == [op |-> op, client |-> client.id, arg |-> arg]

NotConnected == [error |-> <<"Not connected to BigQuery">>]
Error500(message) == [error |-> <<message>>]

\* ------------------------------------------------------------ the handles
\* the handles some reference still names: the store's and those of pending calls
Live(c, rq) ==
    (IF c = Null THEN {} ELSE {c.id})
    \cup UNION {{k.calls[i].client : i \in DOMAIN k.calls} : k \in BagToSet(rq)}

\* the identity of a newly constructed object
FreshId == Cardinality(Live(bigQueryClient, req)) + 1

\* privateKey.replace(/\\n/g, '\n'): every backslash followed by n becomes a newline
RECURSIVE ReplaceEscapedNewlines(_)
ReplaceEscapedNewlines(s) ==
    IF s = <<>> THEN <<>>
    ELSE IF Len(s) >= 2 /\ s[1] = "\\" /\ s[2] = "n"
         THEN <<"\n">> \o ReplaceEscapedNewlines(SubSeq(s, 3, Len(s)))
         ELSE <<s[1]>> \o ReplaceEscapedNewlines(Tail(s))

NewBigQuery(id, projectId, clientEmail, formattedKey) ==
    [t |-> "BigQuery", id |-> id, projectId |-> projectId,
     credentials |-> [client_email |-> clientEmail, private_key |-> formattedKey]]

\* The state a step leaves.  Identities of handles no reference names any more are
\* dropped and the remaining ones renumbered 1..k in their order of construction.
Commit(c, cr, rq, o, vs) ==
    LET live == Live(c, rq)
        Rank(i) == Cardinality({j \in live : j <= i})
        Renumber(k) ==
            [k EXCEPT !.calls = [i \in DOMAIN @ |-> [@[i] EXCEPT !.client = Rank(@)]]]
    IN /\ out' = o
       /\ bigQueryCredentials' = cr
       /\ IF live = 1..Cardinality(live)
          THEN /\ bigQueryClient' = c
               /\ req' = rq
               /\ verified' = vs \cap live
          ELSE /\ bigQueryClient' = IF c = Null THEN Null ELSE [c EXCEPT !.id = Rank(@)]
               /\ req' = [x \in {Renumber(k) : k \in BagToSet(rq)} |->
                             rq[CHOOSE k \in BagToSet(rq) : Renumber(k) = x]]
               /\ verified' = {Rank(i) : i \in vs \cap live}

\* a handler suspends on an upstream call / a suspended handler ends
Suspend(k) == req (+) SetToBag({k})
Remove(k) == req (-) SetToBag({k})
CanSuspend == BagCardinality(req) < MaxPending
Pending == BagToSet(req)

Init ==
    /\ bigQueryClient = Null
    /\ bigQueryCredentials = Null
    /\ req = EmptyBag
    /\ out = NoResponse
    /\ verified = {}
    /\ hist = <<>>

\* --------------------------------------------------------------- status
StatusBody(client, credentials) ==
    [connected |-> client # Null,
     projectId |-> IF credentials = Null \/ Falsy(credentials.projectId)
                   THEN Null ELSE credentials.projectId]

Status ==
    Commit(bigQueryClient, bigQueryCredentials, req,
           Response("status", 200, StatusBody(bigQueryClient, bigQueryCredentials), <<>>),
           verified)

\* -------------------------------------------------------------- connect
ConnectMissing_ForgetsEmail(body) ==
    Falsy(body.projectId) \/ FalsyChars(body.privateKey)

ConnectMissing(body) ==
    Falsy(body.projectId) \/ Falsy(body.clientEmail) \/ FalsyChars(body.privateKey)

ConnectStart(body) ==
    IF ConnectMissing(body)
    THEN Commit(bigQueryClient, bigQueryCredentials, req,
                Response("connect", 400, [error |-> <<"Missing required credentials">>],
                         <<>>),
                verified)
    ELSE IF body.privateKey.t # "string"
    THEN \* privateKey.replace throws inside the try block
         Commit(Null, Null, req,
                Response("connect", 401,
                         [error |-> <<"Authentication failed: ",
                                      "privateKey.replace is not a function">>],
                         <<>>),
                verified)
    ELSE /\ CanSuspend
         /\ LET formattedKey == Str(ReplaceEscapedNewlines(body.privateKey.s))
                client == NewBigQuery(FreshId, body.projectId, body.clientEmail,
                                      formattedKey)
            IN Commit(client, bigQueryCredentials,
                      Suspend([pc |-> "connect", projectId |-> body.projectId,
                               clientEmail |-> body.clientEmail,
                               calls |-> <<Call("getDatasets", client, <<>>)>>]),
                      NoResponse, verified)

ConnectResume_KeepsClient(k, result) ==
    /\ k \in Pending
    /\ k.pc = "connect"
    /\ IF result.ok
       THEN Commit(bigQueryClient,
                   [projectId |-> k.projectId, clientEmail |-> k.clientEmail],
                   Remove(k),
                   Response("connect", 200,
                            [success |-> TRUE, message |-> "Connected to BigQuery"],
                            Strip(k.calls)),
                   verified \cup {k.calls[1].client})
       ELSE Commit(bigQueryClient, Null, Remove(k),
                   Response("connect", 401,
                            [error |-> <<"Authentication failed: ", result.message>>],
                            Strip(k.calls)),
                   verified)

ConnectResume_StoresKey(k, result) ==
    /\ k \in Pending
    /\ k.pc = "connect"
    /\ IF result.ok
       THEN Commit(bigQueryClient,
                   [projectId |-> k.projectId, clientEmail |-> k.clientEmail,
                    privateKey |-> CHOOSE key \in PrivateKeys : TRUE],
                   Remove(k),
                   Response("connect", 200,
                            [success |-> TRUE, message |-> "Connected to BigQuery"],
                            Strip(k.calls)),
                   verified \cup {k.calls[1].client})
       ELSE Commit(Null, Null, Remove(k),
                   Response("connect", 401,
                            [error |-> <<"Authentication failed: ", result.message>>],
                            Strip(k.calls)),
                   verified)

ConnectResume(k, result) ==
    /\ k \in Pending
    /\ k.pc = "connect"
    /\ IF result.ok
       THEN Commit(bigQueryClient,
                   [projectId |-> k.projectId, clientEmail |-> k.clientEmail],
                   Remove(k),
                   Response("connect", 200,
                            [success |-> TRUE, message |-> "Connected to BigQuery"],
                            Strip(k.calls)),
                   verified \cup {k.calls[1].client})
       ELSE Commit(Null, Null, Remove(k),
                   Response("connect", 401,
                            [error |-> <<"Authentication failed: ", result.message>>],
                            Strip(k.calls)),
                   verified)

\* ----------------------------------------------------------- disconnect
Disconnect_OnlyWithCredentials ==
    IF bigQueryCredentials = Null
    THEN Commit(bigQueryClient, bigQueryCredentials, req,
                Response("disconnect", 200, [success |-> TRUE], <<>>), verified)
    ELSE Commit(Null, Null, req, Response("disconnect", 200, [success |-> TRUE], <<>>),
                verified)

Disconnect ==
    Commit(Null, Null, req, Response("disconnect", 200, [success |-> TRUE], <<>>),
           verified)

\* -------------------------------------------------------- list datasets
\* ds => ({id: ds.id, location: ds.metadata?.location}); JSON drops an undefined member
DatasetSummary(ds) ==
    IF "metadata" \in DOMAIN ds /\ "location" \in DOMAIN ds.metadata
    THEN [id |-> ds.id, location |-> ds.metadata.location]
    ELSE [id |-> ds.id]

MapDatasets_Reversed(datasets) ==
    [i \in DOMAIN datasets |-> DatasetSummary(datasets[Len(datasets) + 1 - i])]

MapDatasets(datasets) == [i \in DOMAIN datasets |-> DatasetSummary(datasets[i])]

\* the connection check every read handler starts with
Rejected(kind) ==
    Commit(bigQueryClient, bigQueryCredentials, req,
           Response(kind, 401, NotConnected, <<>>), verified)

\* a read handler sends its response and ends
Finish(k, response) ==
    Commit(bigQueryClient, bigQueryCredentials, Remove(k), response, verified)

\* a read handler suspends on an upstream call
Await(k) ==
    /\ CanSuspend
    /\ Commit(bigQueryClient, bigQueryCredentials, Suspend(k), NoResponse, verified)

DatasetsStart ==
    IF bigQueryClient = Null
    THEN Rejected("datasets")
    ELSE Await([pc |-> "datasets",
                calls |-> <<Call("getDatasets", bigQueryClient, <<>>)>>])

\* a list datasets whose error path borrows the catch block of connect
DatasetsResume_ClearsOnError(k, result) ==
    /\ k \in Pending
    /\ k.pc = "datasets"
    /\ IF result.ok
       THEN Finish(k, Response("datasets", 200, [datasets |-> MapDatasets(result.value)],
                               Strip(k.calls)))
       ELSE Commit(Null, Null, Remove(k),
                   Response("datasets", 500, Error500(result.message), Strip(k.calls)),
                   verified)

DatasetsResume(k, result) ==
    /\ k \in Pending
    /\ k.pc = "datasets"
    /\ Finish(k, IF result.ok
                 THEN Response("datasets", 200, [datasets |-> MapDatasets(result.value)],
                               Strip(k.calls))
                 ELSE Response("datasets", 500, Error500(result.message),
                               Strip(k.calls)))

\* ---------------------------------------------------------- list tables
TableSummary(tb) ==
    IF "metadata" \in DOMAIN tb /\ "type" \in DOMAIN tb.metadata
    THEN [id |-> tb.id, type |-> tb.metadata.type]
    ELSE [id |-> tb.id]

MapTables(tables) == [i \in DOMAIN tables |-> TableSummary(tables[i])]

TablesStart(datasetId) ==
    IF bigQueryClient = Null
    THEN Rejected("tables")
    ELSE Await([pc |-> "tables",
                calls |-> <<Call("getTables", bigQueryClient, datasetId)>>])

TablesResume(k, result) ==
    /\ k \in Pending
    /\ k.pc = "tables"
    /\ Finish(k, IF result.ok
                 THEN Response("tables", 200, [tables |-> MapTables(result.value)],
                               Strip(k.calls))
                 ELSE Response("tables", 500, Error500(result.message),
                               Strip(k.calls)))

\* ------------------------------------------------------- get table page
Digits == {"0", "1", "2", "3", "4", "5", "6", "7", "8", "9"}
DigitValue(c) ==
    CASE c = "0" -> 0 [] c = "1" -> 1 [] c = "2" -> 2 [] c = "3" -> 3 [] c = "4" -> 4
      [] c = "5" -> 5 [] c = "6" -> 6 [] c = "7" -> 7 [] c = "8" -> 8 [] c = "9" -> 9

NaN == [nan |-> TRUE, n |-> 0]
Num(n) == [nan |-> FALSE, n |-> n]

RECURSIVE SkipWhitespace(_)
SkipWhitespace(s) ==
    IF s # <<>> /\ s[1] = " " THEN SkipWhitespace(Tail(s)) ELSE s

RECURSIVE DigitPrefix(_)
DigitPrefix(s) ==
    IF s # <<>> /\ s[1] \in Digits THEN <<s[1]>> \o DigitPrefix(Tail(s)) ELSE <<>>

RECURSIVE DecimalValue(_)
DecimalValue(ds) ==
    IF ds = <<>> THEN 0
    ELSE 10 * DecimalValue(SubSeq(ds, 1, Len(ds) - 1)) + DigitValue(ds[Len(ds)])

\* parseInt(v) of a query-string parameter: leading whitespace, an optional sign,
\* then the longest run of decimal digits; NaN when there is none
ParseInt(v) ==
    IF v = Undefined THEN NaN
    ELSE LET s == SkipWhitespace(v.s)
             signed == s # <<>> /\ s[1] \in {"+", "-"}
             ds == DigitPrefix(IF signed THEN Tail(s) ELSE s)
         IN IF ds = <<>> THEN NaN
            ELSE IF signed /\ s[1] = "-" THEN Num(0 - DecimalValue(ds))
                 ELSE Num(DecimalValue(ds))

\* p || d for a number p: NaN and 0 are falsy
OrDefault(p, d) == IF p.nan \/ p.n = 0 THEN d ELSE p.n

DefaultLimit == 100
DefaultOffset == 0

ParseLimit(raw) == OrDefault(ParseInt(raw), DefaultLimit)
ParseOffset(raw) == OrDefault(ParseInt(raw), DefaultOffset)

\* `SELECT * FROM \`${projectId}.${datasetId}.${tableId}\` LIMIT ${limit} OFFSET ${offset}`
PageQuery(projectId, datasetId, tableId, limit, offset) ==
    [select |-> "*", from |-> <<projectId, datasetId, tableId>>,
     limit |-> limit, offset |-> offset]

\* metadata.schema?.fields || []
SchemaFields(metadata) ==
    IF "schema" \in DOMAIN metadata /\ "fields" \in DOMAIN metadata.schema
    THEN metadata.schema.fields ELSE <<>>

DataStart(datasetId, tableId, rawLimit, rawOffset) ==
    IF bigQueryClient = Null
    THEN Rejected("data")
    ELSE Await([pc |-> "data_metadata",
                datasetId |-> datasetId, tableId |-> tableId,
                rawLimit |-> rawLimit, rawOffset |-> rawOffset,
                limit |-> ParseLimit(rawLimit), offset |-> ParseOffset(rawOffset),
                calls |-> <<Call("getMetadata", bigQueryClient, <<datasetId, tableId>>)>>])

\* a get table page whose lines 119-120 stand outside the try block: the TypeError
\* rejects the handler's promise and nothing is sent
DataMetadataResume_Uncaught(k, result) ==
    /\ k \in Pending
    /\ k.pc = "data_metadata"
    /\ IF ~result.ok
       THEN Finish(k, Response("data", 500, Error500(result.message),
                               Strip(k.calls)))
       ELSE IF bigQueryCredentials = Null \/ bigQueryClient = Null
       THEN Finish(k, NoResponse)
       ELSE LET query == PageQuery(bigQueryCredentials.projectId.s, k.datasetId,
                                   k.tableId, k.limit, k.offset)
            IN Commit(bigQueryClient, bigQueryCredentials,
                      Remove(k) (+) SetToBag({
                          [pc |-> "data_query",
                           rawLimit |-> k.rawLimit, rawOffset |-> k.rawOffset,
                           metadata |-> result.value,
                           schema |-> SchemaFields(result.value),
                           calls |-> Append(k.calls,
                                            Call("query", bigQueryClient, query))]}),
                      NoResponse, verified)

DataMetadataResume(k, result) ==
    /\ k \in Pending
    /\ k.pc = "data_metadata"
    /\ IF ~result.ok
       THEN Finish(k, Response("data", 500, Error500(result.message),
                               Strip(k.calls)))
       ELSE IF bigQueryCredentials = Null
       THEN Finish(k, Response("data", 500,
                         Error500("Cannot read properties of null (reading 'projectId')"),
                         Strip(k.calls)))
       ELSE IF bigQueryClient = Null
       THEN Finish(k, Response("data", 500,
                         Error500("Cannot read properties of null (reading 'query')"),
                         Strip(k.calls)))
       ELSE LET query == PageQuery(bigQueryCredentials.projectId.s, k.datasetId,
                                   k.tableId, k.limit, k.offset)
            IN Commit(bigQueryClient, bigQueryCredentials,
                      Remove(k) (+) SetToBag({
                          [pc |-> "data_query",
                           rawLimit |-> k.rawLimit, rawOffset |-> k.rawOffset,
                           metadata |-> result.value,
                           schema |-> SchemaFields(result.value),
                           calls |-> Append(k.calls,
                                            Call("query", bigQueryClient, query))]}),
                      NoResponse, verified)

\* {rows, schema, total: metadata.numRows}; JSON drops an undefined member
PageBody(rows, schema, metadata) ==
    IF "numRows" \in DOMAIN metadata
    THEN [rows |-> rows, schema |-> schema, total |-> metadata.numRows]
    ELSE [rows |-> rows, schema |-> schema]

DataQueryResume(k, result) ==
    /\ k \in Pending
    /\ k.pc = "data_query"
    /\ Finish(k, IF result.ok
                 THEN Response("data", 200,
                               PageBody(result.value, k.schema, k.metadata),
                               Strip(k.calls))
                 ELSE Response("data", 500, Error500(result.message),
                               Strip(k.calls)))

\* ------------------------------------------------------------ run query
\* Object.keys(rows[0]).map(name => ({name, type: typeof rows[0][name]})), [] without rows
InferSchema(rows) ==
    IF Len(rows) > 0
    THEN [i \in DOMAIN rows[1] |->
            [name |-> rows[1][i].name, type |-> rows[1][i].value.type]]
    ELSE <<>>

QueryStart_ValidatesFirst(body) ==
    IF Falsy(body.query)
    THEN Commit(bigQueryClient, bigQueryCredentials, req,
                Response("query", 400, [error |-> <<"Query is required">>], <<>>),
                verified)
    ELSE IF bigQueryClient = Null
    THEN Rejected("query")
    ELSE Await([pc |-> "query",
                calls |-> <<Call("query", bigQueryClient, body.query)>>])

QueryStart_NoValidation(body) ==
    IF bigQueryClient = Null
    THEN Rejected("query")
    ELSE Await([pc |-> "query",
                calls |-> <<Call("query", bigQueryClient, body.query)>>])

QueryStart(body) ==
    IF bigQueryClient = Null
    THEN Rejected("query")
    ELSE IF Falsy(body.query)
    THEN Commit(bigQueryClient, bigQueryCredentials, req,
                Response("query", 400, [error |-> <<"Query is required">>], <<>>),
                verified)
    ELSE Await([pc |-> "query",
                calls |-> <<Call("query", bigQueryClient, body.query)>>])

QueryResume(k, result) ==
    /\ k \in Pending
    /\ k.pc = "query"
    /\ Finish(k, IF result.ok
                 THEN Response("query", 200,
                               [rows |-> result.value,
                                schema |-> InferSchema(result.value)],
                               Strip(k.calls))
                 ELSE Response("query", 500, Error500(result.message),
                               Strip(k.calls)))

\* ------------------------------------------------- the concurrent server
\* limit / offset parameters and upstream outcomes of the concurrent specification
FewParams == {Str(<<"7">>)}
FewDatasetResults == {Success(<<[id |-> "d2"]>>), Failure("denied")}
FewTableResults == {Success(<<[id |-> "t2"]>>), Failure("denied")}
FewMetadataResults == {Success([numRows |-> "3"]), Failure("denied")}
FewRowResults == {Success(<<>>), Failure("denied")}

Next ==
    \/ Status /\ UNCHANGED hist
    \/ (\E body \in ConnectBodies : ConnectStart(body)) /\ UNCHANGED hist
    \/ (\E k \in Pending, result \in VerifyResults : ConnectResume(k, result)) /\ UNCHANGED hist
    \/ Disconnect /\ UNCHANGED hist
    \/ DatasetsStart /\ UNCHANGED hist
    \/ (\E k \in Pending, result \in FewDatasetResults : DatasetsResume(k, result))
            /\ UNCHANGED hist
    \/ (\E d \in DatasetIds : TablesStart(d)) /\ UNCHANGED hist
    \/ (\E k \in Pending, result \in FewTableResults : TablesResume(k, result))
            /\ UNCHANGED hist
    \/ (\E d \in DatasetIds, t \in TableIds, l \in FewParams, o \in FewParams :
            DataStart(d, t, l, o)) /\ UNCHANGED hist
    \/ (\E k \in Pending, result \in FewMetadataResults : DataMetadataResume(k, result))
            /\ UNCHANGED hist
    \/ (\E k \in Pending, result \in FewRowResults : DataQueryResume(k, result))
            /\ UNCHANGED hist
    \/ (\E body \in QueryBodies : QueryStart(body)) /\ UNCHANGED hist
    \/ (\E k \in Pending, result \in FewRowResults : QueryResume(k, result)) /\ UNCHANGED hist

Spec == Init /\ [][Next]_vars

\* ------------------------------------------------- one request at a time
\* The same handlers under a client that waits for each response before its next
\* request, with the full range of parameters and upstream values.
Chars == {"0", "1", "-", "a"}
PageParams == {Undefined} \cup {Str(s) : s \in SeqsUpTo(Chars, MaxStrLen)}

NextSeq ==
    \/ req = EmptyBag /\ Status /\ UNCHANGED hist
    \/ req = EmptyBag /\ (\E body \in ConnectBodies : ConnectStart(body)) /\ UNCHANGED hist
    \/ (\E k \in Pending, result \in VerifyResults : ConnectResume(k, result)) /\ UNCHANGED hist
    \/ req = EmptyBag /\ Disconnect /\ UNCHANGED hist
    \/ req = EmptyBag /\ DatasetsStart /\ UNCHANGED hist
    \/ (\E k \in Pending, result \in DatasetResults : DatasetsResume(k, result)) /\ UNCHANGED hist
    \/ req = EmptyBag /\ (\E d \in DatasetIds : TablesStart(d)) /\ UNCHANGED hist
    \/ (\E k \in Pending, result \in TableResults : TablesResume(k, result)) /\ UNCHANGED hist
    \/ req = EmptyBag /\ (\E d \in DatasetIds, t \in TableIds, l \in PageParams, o \in PageParams :
                         DataStart(d, t, l, o)) /\ UNCHANGED hist
    \/ (\E k \in Pending, result \in MetadataResults : DataMetadataResume(k, result)) /\ UNCHANGED hist
    \/ (\E k \in Pending, result \in RowResults : DataQueryResume(k, result)) /\ UNCHANGED hist
    \/ req = EmptyBag /\ (\E body \in QueryBodies : QueryStart(body)) /\ UNCHANGED hist
    \/ (\E k \in Pending, result \in RowResults : QueryResume(k, result)) /\ UNCHANGED hist

SpecSeq == Init /\ [][NextSeq]_vars

\* --------------------------------------------------- the scripted client
\* connect, status, list datasets, disconnect, list datasets: each request sent once
\* the response to the one before it has arrived.  hist keeps each exchange.
NoCall == [ok |-> FALSE, issued |-> FALSE]

Exchange(request, upstream) ==
    hist' = Append(hist, [request |-> request, upstream |-> upstream, response |-> out'])

ScriptedDatasets ==
    /\ DatasetsStart
    /\ IF out'.kind = "none" THEN UNCHANGED hist
       ELSE Exchange([op |-> "datasets"], NoCall)

NextScenario ==
    \/ /\ Len(hist) = 0 /\ req = EmptyBag
       /\ \E body \in CompleteBodies : ConnectStart(body)
       /\ UNCHANGED hist
    \/ \E k \in Pending, result \in VerifyResults :
          /\ ConnectResume(k, result)
          /\ Exchange([op |-> "connect", projectId |-> k.projectId], result)
    \/ /\ Len(hist) = 1 /\ req = EmptyBag
       /\ Status
       /\ Exchange([op |-> "status"], NoCall)
    \/ /\ Len(hist) = 2 /\ req = EmptyBag
       /\ ScriptedDatasets
    \/ \E k \in Pending, result \in DatasetResults :
          /\ DatasetsResume(k, result)
          /\ Exchange([op |-> "datasets"], result)
    \/ /\ Len(hist) = 3 /\ req = EmptyBag
       /\ Disconnect
       /\ Exchange([op |-> "disconnect"], NoCall)
    \/ /\ Len(hist) = 4 /\ req = EmptyBag
       /\ ScriptedDatasets

SpecScenario == Init /\ [][NextScenario]_vars

\* ------------------------------------------------- the server with a ledger
\* The concurrent server under a client that sends MaxRequests requests in all, where
\* every upstream call eventually returns or fails.  hist counts the requests that
\* have arrived and the responses that have been sent.
MaxRequests == 3     \* requests the client sends in all

InitLive ==
    /\ bigQueryClient = Null
    /\ bigQueryCredentials = Null
    /\ req = EmptyBag
    /\ out = NoResponse
    /\ verified = {}
    /\ hist = [arrived |-> 0, responded |-> 0]

\* res.json of the step, if it sent one
Sent == IF out'.kind = "none" THEN 0 ELSE 1

\* express calls the handler of an arriving request
Arrives ==
    /\ hist.arrived < MaxRequests
    /\ hist' = [arrived |-> hist.arrived + 1, responded |-> hist.responded + Sent]

\* the event loop runs a suspended handler whose upstream call has settled
Settles == hist' = [hist EXCEPT !.responded = @ + Sent]

ConnectSettles == \E k \in Pending, result \in VerifyResults : ConnectResume(k, result) /\ Settles
DatasetsSettles ==
    \E k \in Pending, result \in FewDatasetResults : DatasetsResume(k, result) /\ Settles
TablesSettles ==
    \E k \in Pending, result \in FewTableResults : TablesResume(k, result) /\ Settles
MetadataSettles ==
    \E k \in Pending, result \in FewMetadataResults : DataMetadataResume(k, result) /\ Settles
PageQuerySettles ==
    \E k \in Pending, result \in FewRowResults : DataQueryResume(k, result) /\ Settles
QuerySettles ==
    \E k \in Pending, result \in FewRowResults : QueryResume(k, result) /\ Settles

NextLive ==
    \/ Status /\ Arrives
    \/ (\E body \in ConnectBodies : ConnectStart(body)) /\ Arrives
    \/ ConnectSettles
    \/ Disconnect /\ Arrives
    \/ DatasetsStart /\ Arrives
    \/ DatasetsSettles
    \/ (\E d \in DatasetIds : TablesStart(d)) /\ Arrives
    \/ TablesSettles
    \/ (\E d \in DatasetIds, t \in TableIds, l \in FewParams, o \in FewParams :
            DataStart(d, t, l, o)) /\ Arrives
    \/ MetadataSettles
    \/ PageQuerySettles
    \/ (\E body \in QueryBodies : QueryStart(body)) /\ Arrives
    \/ QuerySettles

\* every upstream call eventually returns or fails
UpstreamSettles ==
    /\ WF_vars(ConnectSettles)
    /\ WF_vars(DatasetsSettles)
    /\ WF_vars(TablesSettles)
    /\ WF_vars(MetadataSettles)
    /\ WF_vars(PageQuerySettles)
    /\ WF_vars(QuerySettles)

SpecLive == InitLive /\ [][NextLive]_vars /\ UpstreamSettles

\* ================================================================ claims
Empty == bigQueryClient = Null /\ bigQueryCredentials = Null

\* C1: in every state a handler can observe, the client handle is present exactly
\* when the credentials are present.
C1_NoPartialState == (bigQueryClient = Null) <=> (bigQueryCredentials = Null)

\* C2: the store holds, and a read handler calls upstream through, only a client
\* handle whose connect verification call has completed successfully.
C2_CommitAfterVerification ==
    /\ bigQueryClient # Null => bigQueryClient.id \in verified
    /\ \A k \in Pending :
          k.pc # "connect" => \A i \in DOMAIN k.calls : k.calls[i].client \in verified

\* C3: when a connect request for project P responds with success, a status request
\* served next reports connected = true and projectId = P.
C3_StatusAfterConnect ==
    [][\A k \in Pending, result \in VerifyResults :
          (ConnectResume(k, result) /\ result.ok) =>
             StatusBody(bigQueryClient', bigQueryCredentials')
                = [connected |-> TRUE, projectId |-> k.projectId]]_vars

\* C4: when the verification call of a connect request fails, the request responds
\* 401 with the underlying error message, and at that moment the store is empty, so
\* that a following status reports connected = false.
C4_FailedConnectEmptiesStore ==
    [][\A k \in Pending, result \in VerifyResults :
          (ConnectResume(k, result) /\ ~result.ok) =>
             /\ out'.kind = "connect" /\ out'.code = 401
             /\ out'.body = [error |-> <<"Authentication failed: ", result.message>>]
             /\ bigQueryClient' = Null /\ bigQueryCredentials' = Null
             /\ ~StatusBody(bigQueryClient', bigQueryCredentials').connected]_vars

\* a connect has just answered 401 after its verification call failed
C4_Witness ==
    /\ out.kind = "connect" /\ out.code = 401
    /\ out.calls = <<"getDatasets">>
    /\ Empty

\* C5: disconnect always responds success and leaves connected = false whatever the
\* store held; a disconnect that directly follows a disconnect leaves the store as
\* the first one left it.
C5_DisconnectClears ==
    [][Disconnect =>
          /\ out' = Response("disconnect", 200, [success |-> TRUE], <<>>)
          /\ ~StatusBody(bigQueryClient', bigQueryCredentials').connected
          /\ (out.kind = "disconnect" => UNCHANGED store)]_vars

\* a disconnect has just been served while a connect is awaiting its verification
C5_Witness ==
    /\ out.kind = "disconnect"
    /\ \E k \in Pending : k.pc = "connect"

\* C6: list datasets, list tables, get table page and run query, arriving while the
\* client handle is absent, respond 401 and issue no upstream call.
C6_DisconnectedReads ==
    [][bigQueryClient = Null =>
          /\ DatasetsStart => (out' = Response("datasets", 401, NotConnected, <<>>)
                               /\ req' = req)
          /\ \A d \in DatasetIds :
                TablesStart(d) => (out' = Response("tables", 401, NotConnected, <<>>)
                                   /\ req' = req)
          /\ \A d \in DatasetIds, t \in TableIds, l \in FewParams, o \in FewParams :
                DataStart(d, t, l, o) =>
                   (out' = Response("data", 401, NotConnected, <<>>) /\ req' = req)
          /\ \A body \in QueryBodies :
                QueryStart(body) => (out' = Response("query", 401, NotConnected, <<>>)
                                     /\ req' = req)]_vars

\* a read request has just been refused with 401 on a store without a client handle
C6_Witness ==
    /\ out.kind \in {"datasets", "tables", "data", "query"}
    /\ out.code = 401
    /\ bigQueryClient = Null

AbsentOrEmpty(v) == v = Undefined \/ (v.t = "string" /\ v.s = "")
AbsentOrEmptyChars(v) == v = Undefined \/ (v.t = "string" /\ Len(v.s) = 0)

IncompleteBodies ==
    {body \in ConnectBodies : \/ AbsentOrEmpty(body.projectId)
                              \/ AbsentOrEmpty(body.clientEmail)
                              \/ AbsentOrEmptyChars(body.privateKey)}

\* the step is the first step of some connect request: it answers, or it suspends on
\* the verification call
ConnectArrives ==
    \/ out'.kind = "connect"
    \/ BagCardinality(req') = BagCardinality(req) + 1

\* C7: a connect request lacking projectId, clientEmail or privateKey responds 400,
\* issues no upstream call and leaves the client handle and the credentials as they
\* were.
C7_InvalidConnect ==
    [][ConnectArrives =>
          \A body \in IncompleteBodies :
             ConnectStart(body) =>
                /\ out'.kind = "connect" /\ out'.code = 400 /\ out'.calls = <<>>
                /\ req' = req
                /\ UNCHANGED store]_vars

\* a connect has just been refused with 400 while the store was connected
C7_Witness ==
    /\ out.kind = "connect" /\ out.code = 400
    /\ bigQueryClient # Null /\ bigQueryCredentials # Null

\* C8 as stated: a run query whose query is empty or missing responds 400 and issues
\* no upstream call, in every store state.
C8_EmptyQueryAlways400 ==
    [][\A body \in QueryBodies :
          (AbsentOrEmpty(body.query) /\ QueryStart(body)) =>
             (out'.kind = "query" /\ out'.code = 400 /\ out'.calls = <<>> /\ req' = req)]_vars

\* C8 amended: a run query whose query is empty or missing issues no upstream call;
\* it responds 400 when the client handle is present and 401 when it is absent.
C8_EmptyQuery ==
    [][\A body \in QueryBodies :
          (AbsentOrEmpty(body.query) /\ QueryStart(body)) =>
             /\ out'.kind = "query" /\ out'.calls = <<>> /\ req' = req
             /\ out'.code = IF bigQueryClient = Null THEN 401 ELSE 400]_vars

\* a run query has just been refused with 400
C8_Witness == out.kind = "query" /\ out.code = 400 /\ bigQueryClient # Null

\* what the claim takes for a numeric parameter: an optional minus sign and digits
IsDecimal(s) ==
    LET ds == IF s # <<>> /\ s[1] = "-" THEN Tail(s) ELSE s
    IN ds # <<>> /\ \A i \in DOMAIN ds : ds[i] \in Digits

SuppliedValue(s) ==
    IF s[1] = "-" THEN 0 - DecimalValue(Tail(s)) ELSE DecimalValue(s)

Expected(raw, default) ==
    IF raw # Undefined /\ IsDecimal(raw.s) THEN SuppliedValue(raw.s) ELSE default

\* C9: the generated page query carries the supplied limit when the limit parameter
\* is numeric and 100 otherwise, and the supplied offset when the offset parameter is
\* numeric and 0 otherwise.
C9_PageParameters ==
    \A k \in Pending :
       k.pc = "data_query" =>
          /\ k.calls[2].arg.limit = Expected(k.rawLimit, 100)
          /\ k.calls[2].arg.offset = Expected(k.rawOffset, 0)

\* C10: in the run connect(valid, P), status, list datasets, disconnect, list datasets
\* the status reports connected = true and projectId = P, the first list datasets
\* returns the upstream datasets mapped one by one to {id, location} in the same order
\* and number, and the list datasets after the disconnect returns 401.
C10_Scenario ==
    (Len(hist) >= 1 /\ hist[1].response.code = 200) =>
       /\ Len(hist) >= 2 =>
             /\ hist[2].response.code = 200
             /\ hist[2].response.body =
                   [connected |-> TRUE, projectId |-> hist[1].request.projectId]
       /\ Len(hist) >= 3 =>
             /\ hist[3].response.calls = <<"getDatasets">>
             /\ hist[3].upstream.ok =>
                   LET up == hist[3].upstream.value
                       got == hist[3].response.body.datasets
                   IN /\ hist[3].response.code = 200
                      /\ Len(got) = Len(up)
                      /\ \A i \in DOMAIN up :
                            /\ got[i].id = up[i].id
                            /\ IF "metadata" \in DOMAIN up[i]
                               THEN got[i].location = up[i].metadata.location
                               ELSE "location" \notin DOMAIN got[i]
       /\ Len(hist) >= 5 =>
             /\ hist[5].response.code = 401
             /\ hist[5].response.calls = <<>>

\* the whole run has been served, the upstream having returned at least two datasets
\* whose summaries differ
C10_Witness ==
    /\ Len(hist) = 5
    /\ hist[1].response.code = 200
    /\ hist[3].upstream.ok
    /\ Len(hist[3].upstream.value) >= 2
    /\ hist[3].response.body.datasets[1] # hist[3].response.body.datasets[2]

\* C11: the stored credentials are absent or a record of exactly projectId and
\* clientEmail, each a value some connect request supplied under that name; a status
\* response has exactly the members connected and projectId, and its projectId is
\* null or a supplied projectId.  No member holds a private key.
C11_NoPrivateKeyStored ==
    /\ bigQueryCredentials # Null =>
          /\ DOMAIN bigQueryCredentials = {"projectId", "clientEmail"}
          /\ bigQueryCredentials.projectId \in ProjectIds
          /\ bigQueryCredentials.clientEmail \in ClientEmails
    /\ out.kind = "status" =>
          /\ DOMAIN out.body = {"connected", "projectId"}
          /\ out.body.connected \in BOOLEAN
          /\ out.body.projectId \in ProjectIds \cup {Null}

\* a status has just been served from a store whose handle was built with a private
\* key and whose credentials a successful connect wrote
C11_Witness ==
    /\ out.kind = "status"
    /\ out.body.projectId # Null
    /\ bigQueryCredentials # Null
    /\ bigQueryClient # Null
    /\ bigQueryClient.credentials.private_key = Str(<<"k", "\n", "k">>)

\* a handle without its identity, which a step renumbers when older handles are dropped
Unnumbered(c) == IF c = Null THEN Null ELSE [c EXCEPT !.id = 0]

\* the store names the same handle and the same credentials after the step as before
StoreKept ==
    /\ Unnumbered(bigQueryClient') = Unnumbered(bigQueryClient)
    /\ bigQueryCredentials' = bigQueryCredentials

\* a step of status, list datasets, list tables, get table page or run query
ReadStep ==
    \/ Status
    \/ DatasetsStart
    \/ \E k \in Pending, result \in FewDatasetResults : DatasetsResume(k, result)
    \/ \E d \in DatasetIds : TablesStart(d)
    \/ \E k \in Pending, result \in FewTableResults : TablesResume(k, result)
    \/ \E d \in DatasetIds, t \in TableIds, l \in FewParams, o \in FewParams :
          DataStart(d, t, l, o)
    \/ \E k \in Pending, result \in FewMetadataResults : DataMetadataResume(k, result)
    \/ \E k \in Pending, result \in FewRowResults : DataQueryResume(k, result)
    \/ \E body \in QueryBodies : QueryStart(body)
    \/ \E k \in Pending, result \in FewRowResults : QueryResume(k, result)

\* a connect request that fails the field validation
RefusedConnect == \E body \in ConnectBodies : ConnectMissing(body) /\ ConnectStart(body)

\* C12: a step that changes the client handle or the credentials is a step of neither
\* status, list datasets, list tables, get table page or run query, on any of their
\* paths (401, 400, 500, success, suspension), nor of a connect that fails the field
\* validation: only the other connects and disconnect change the store.
C12_ReadsKeepStore == [][~StoreKept => ~(ReadStep \/ RefusedConnect)]_vars

\* a list datasets has just answered 500 on a store that is still fully connected
C12_Witness ==
    /\ out.kind = "datasets" /\ out.code = 500
    /\ bigQueryClient # Null /\ bigQueryCredentials # Null

\* C13: a list datasets, list tables, get table page or run query request responds 500
\* only when the upstream call it was awaiting failed.
C13_500OnlyFromUpstream ==
    [][/\ \A k \in Pending, result \in FewDatasetResults :
             (DatasetsResume(k, result) /\ out'.code = 500) => ~result.ok
       /\ \A k \in Pending, result \in FewTableResults :
             (TablesResume(k, result) /\ out'.code = 500) => ~result.ok
       /\ \A k \in Pending, result \in FewMetadataResults :
             (DataMetadataResume(k, result) /\ out'.kind = "data" /\ out'.code = 500)
                => ~result.ok
       /\ \A k \in Pending, result \in FewRowResults :
             (DataQueryResume(k, result) /\ out'.code = 500) => ~result.ok
       /\ \A k \in Pending, result \in FewRowResults :
             (QueryResume(k, result) /\ out'.code = 500) => ~result.ok]_vars

\* C14: a get table page request issues its row query through the handle it issued
\* its metadata call through, and the project qualifier of the generated query is the
\* projectId that handle was constructed with (read off the handle while the store
\* still names it).
C14_OneHandle ==
    \A k \in Pending :
       k.pc = "data_query" =>
          /\ k.calls[2].client = k.calls[1].client
          /\ (bigQueryClient # Null /\ bigQueryClient.id = k.calls[2].client) =>
                k.calls[2].arg.from[1] = bigQueryClient.projectId.s

\* the upstream calls a handler has issued when it stands at pc: one for each await it
\* has reached
CallsAt(pc) ==
    CASE pc = "connect" -> <<"getDatasets">>
      [] pc = "datasets" -> <<"getDatasets">>
      [] pc = "tables" -> <<"getTables">>
      [] pc = "data_metadata" -> <<"getMetadata">>
      [] pc = "data_query" -> <<"getMetadata", "query">>
      [] pc = "query" -> <<"query">>

\* the upstream calls a request of this kind may have issued when it responds
CallsOf(kind) ==
    CASE kind = "status" -> {<<>>}
      [] kind = "disconnect" -> {<<>>}
      [] kind = "connect" -> {<<>>, <<"getDatasets">>}
      [] kind = "datasets" -> {<<>>, <<"getDatasets">>}
      [] kind = "tables" -> {<<>>, <<"getTables">>}
      [] kind = "data" -> {<<>>, <<"getMetadata">>, <<"getMetadata", "query">>}
      [] kind = "query" -> {<<>>, <<"query">>}

\* every request that has arrived has been answered once or is suspended on an
\* upstream call, and no request has issued a call twice
OneResponseEach ==
    /\ hist.arrived = hist.responded + BagCardinality(req)
    /\ \A k \in Pending : Strip(k.calls) = CallsAt(k.pc)
    /\ out.kind # "none" => out.calls \in CallsOf(out.kind)

\* C15: every request receives exactly one response, and receives it eventually when
\* every upstream call it issues eventually returns or fails; a handler issues one
\* upstream call for each of its awaits and never repeats one.
C15_OneResponseEventually ==
    /\ []OneResponseEach
    /\ \A n \in 1..MaxRequests : (hist.arrived >= n) ~> (hist.responded >= n)

\* all the client's requests have been answered, the last answer being a table page
\* that took both upstream calls
C15_Witness ==
    /\ hist.arrived = MaxRequests /\ hist.responded = MaxRequests
    /\ out.kind = "data" /\ out.code = 200
    /\ out.calls = <<"getMetadata", "query">>
====
